---- MODULE Spec2Model ----
(***************************************************************************)
(* Model of the rebase orchestration of GitCommand (package commands):     *)
(* the todo builder GenerateGenericRebaseTodo, the operations that start   *)
(* an interactive rebase, DiscardOldFileChanges, and GenericMerge with its *)
(* single pending continuation onSuccessfulContinue.                       *)
(*                                                                         *)
(* Go slices are 0-based: At(s, i) is s[i].  A todo string is modelled as  *)
(* the sequence of its "\n"-terminated lines, each line a string.          *)
(*                                                                         *)
(* The module also models the status parser GetStatusFiles and the merge   *)
(* of two file lists MergeStatusFiles.                                     *)
(***************************************************************************)
EXTENDS Integers, Sequences, FiniteSets, TLC

\* ---------------------------------------------------------------- bounds
\* longest commit history the caller holds
MaxCommits == 4
\* number of continuations that can be queued in one behaviour
MaxConts == 2
\* external calls that one operation can make before every further call fails
MaxCmds == 7
\* calls of MoveCommitDown between two reloads of the history
MaxMoves == 1
\* longest history given to the todo builder when it is checked on its own
MaxTodoCommits == 5
\* most lines of one status output
MaxLines == 2
\* longest list of files given to MergeStatusFiles
MaxFiles == 3
\* most files that git show lists for one commit
MaxListed == 2
\* most lines of the rebase todo file
MaxTodoLines == 3

\* ---------------------------------------------------------------- values
NoErr == ""
Nil == [id |-> 0, kind |-> "nil", child |-> 0]

Verbs == {"pick", "reword", "edit", "squash", "fixup", "drop"}
Indexes == 0 .. MaxCommits - 1
FileNames == {"a.txt"}

Commit(i) == [Sha |-> "sha" \o ToString(i), Name |-> "subject" \o ToString(i)]
\* the history as read from git, newest first
History(n) == [i \in 1 .. n |-> Commit(i)]

At(s, i) == s[i + 1]
\* s[0:n]
Slice0(s, n) == SubSeq(s, 1, n)

\* ------------------------------------------------- GenerateGenericRebaseTodo
TodoLine(a, commit) == a \o " " \o commit.Sha \o " " \o commit.Name

RECURSIVE TodoLoopAppending(_, _, _, _, _)
\* the loop with each line put after the lines built so far
TodoLoopAppending(cs, i, actionIndex, action, todo) ==
    IF i >= Len(cs) THEN todo
    ELSE LET a == IF i = actionIndex THEN action ELSE "pick"
         IN  TodoLoopAppending(cs, i + 1, actionIndex, action,
                               todo \o <<a \o " " \o At(cs, i).Sha \o " " \o At(cs, i).Name>>)

RECURSIVE TodoLoop(_, _, _, _, _)
\* the loop of GenerateGenericRebaseTodo over commits[0:baseIndex], from position i
TodoLoop(cs, i, actionIndex, action, todo) ==
    IF i >= Len(cs) THEN todo
    ELSE LET a == IF i = actionIndex THEN action ELSE "pick"
         IN  TodoLoop(cs, i + 1, actionIndex, action, <<TodoLine(a, At(cs, i))>> \o todo)

\* the test with fixup forgotten
IsFoldSquashOnly(action) == action = "squash"

IsFold(action) == action = "squash" \/ action = "fixup"

\* GenerateGenericRebaseTodo returning the sha of the last commit of the plan
GenerateTodoBaseInPlan(cs, actionIndex, action) ==
    LET baseIndex0 == actionIndex + 1
    IN  IF Len(cs) <= baseIndex0
        THEN [todo |-> <<>>, sha |-> "", err |-> "CannotRebaseOntoFirstCommit"]
        ELSE LET baseIndex == IF IsFold(action) THEN baseIndex0 + 1 ELSE baseIndex0
             IN  IF IsFold(action) /\ Len(cs) <= baseIndex
                 THEN [todo |-> <<>>, sha |-> "", err |-> "CannotSquashOntoSecondCommit"]
                 ELSE [todo |-> TodoLoop(Slice0(cs, baseIndex), 0, actionIndex, action, <<>>),
                       sha  |-> At(cs, baseIndex - 1).Sha,
                       err  |-> NoErr]

\* GenerateGenericRebaseTodo without the baseIndex++ of squash and fixup
GenerateTodoFoldOntoBase(cs, actionIndex, action) ==
    LET baseIndex == actionIndex + 1
    IN  IF Len(cs) <= baseIndex
        THEN [todo |-> <<>>, sha |-> "", err |-> "CannotRebaseOntoFirstCommit"]
        ELSE IF IsFold(action) /\ Len(cs) <= baseIndex + 1
        THEN [todo |-> <<>>, sha |-> "", err |-> "CannotSquashOntoSecondCommit"]
        ELSE [todo |-> TodoLoop(Slice0(cs, baseIndex), 0, actionIndex, action, <<>>),
              sha  |-> At(cs, baseIndex).Sha,
              err  |-> NoErr]

GenerateGenericRebaseTodo(cs, actionIndex, action) ==
    LET baseIndex0 == actionIndex + 1
    IN  IF Len(cs) <= baseIndex0
        THEN [todo |-> <<>>, sha |-> "", err |-> "CannotRebaseOntoFirstCommit"]
        ELSE LET baseIndex == IF IsFold(action) THEN baseIndex0 + 1 ELSE baseIndex0
             IN  IF IsFold(action) /\ Len(cs) <= baseIndex
                 THEN [todo |-> <<>>, sha |-> "", err |-> "CannotSquashOntoSecondCommit"]
                 ELSE [todo |-> TodoLoop(Slice0(cs, baseIndex), 0, actionIndex, action, <<>>),
                       sha  |-> At(cs, baseIndex).Sha,
                       err  |-> NoErr]

\* ------------------------------------------------------------ command runner
\* git configuration read by usingGpg: commit.gpgsign, local then global
Configs == { [local |-> "", global |-> ""],
             [local |-> "", global |-> "on"] }

\* the configuration values of Configs are lower case already (strings.ToLower)
usingGpg(cfg) ==
    LET gpgsign == IF cfg.local = "" THEN cfg.global ELSE cfg.local
    IN  gpgsign \in {"true", "1", "yes", "on"}

\* a process to run: command line and the environment the code adds to it
Cmd(line, client, todo, seqEditor, editor) ==
    [cmd |-> line, client |-> client, todo |-> todo, seqEditor |-> seqEditor,
     editor |-> editor]

ToolErr(line) == "exit status 1: " \o line

\* the driver state after the external call c ended with outcome ok: the call
\* is appended to the calls of the running operation
Ran(st, c, ok) ==
    [st EXCEPT !.calls = Append(@, [cmd |-> c.cmd, client |-> c.client, todo |-> c.todo,
                                    seqEditor |-> c.seqEditor, editor |-> c.editor,
                                    ok |-> ok]),
               !.err = IF ok THEN NoErr ELSE ToolErr(c.cmd)]

\* Every operation below yields the set of states it can end in, one for each
\* way the external calls it makes can turn out.  The environment decides
\* whether a call succeeds; a call beyond MaxCmds fails.
Run(st, c) ==
    IF Len(st.calls) < MaxCmds THEN {Ran(st, c, TRUE), Ran(st, c, FALSE)}
    ELSE {Ran(st, c, FALSE)}

RunCommand(st, line) == Run(st, Cmd(line, "", <<>>, "", FALSE))

RunPreparedCommand(st, c) == Run(st, c)

Remove(st, fileName) == Run(st, Cmd("remove " \o fileName, "", <<>>, "", FALSE))

Quote(s) == "\"" \o s \o "\""

RunSkipEditorCommand(st, line) ==
    Run(st, Cmd(line, "EXIT_IMMEDIATELY", <<>>, "", TRUE))

PrepareInteractiveRebaseCommand(baseSha, todo, overrideEditor) ==
    Cmd("git rebase --interactive --autostash --keep-empty --rebase-merges " \o baseSha,
        "INTERACTIVE_REBASE", todo,
        IF todo = <<>> THEN "true" ELSE "lazygit",
        overrideEditor)

StageFile(st, fileName) == RunCommand(st, "git add " \o Quote(fileName))

CheckoutFile(st, commitSha, fileName) ==
    RunCommand(st, "git checkout " \o commitSha \o " " \o fileName)

\* AmendHead returns (cmd, err): cmd is TRUE when a prepared command is returned
AmendHead(st, cfg) ==
    IF usingGpg(cfg)
    THEN {[st |-> [st EXCEPT !.err = NoErr], cmd |-> TRUE]}
    ELSE {[st |-> s, cmd |-> FALSE] :
             s \in RunCommand(st, "git commit --amend --no-edit --allow-empty")}

\* --------------------------------------------------------------- GenericMerge
\* A continuation is a closure; its identity is id and its body is one of:
\*   "noop"     returns nil
\*   "fail"     returns its own error
\*   "continue" returns c.GenericMerge("rebase", "continue")
\*   "requeue"  sets c.onSuccessfulContinue to the continuation child, returns nil
ContKinds == {"noop", "fail", "continue", "requeue"}
ContErr == "continuation failed"

RECURSIVE GenericMerge(_, _, _)

\* the call f() of the continuation f
InvokeContinuation(f, st) ==
    LET s1 == [st EXCEPT !.invoked[f.id] = @ + 1]
    IN  CASE f.kind = "noop"     -> {[s1 EXCEPT !.err = NoErr]}
          [] f.kind = "fail"     -> {[s1 EXCEPT !.err = ContErr]}
          [] f.kind = "continue" -> GenericMerge(s1, "rebase", "continue")
          [] f.kind = "requeue"  ->
                {[s1 EXCEPT !.cont = [id |-> f.child, kind |-> "noop", child |-> 0],
                            !.err = NoErr]}

\* GenericMerge calling the continuation without clearing it first
GenericMergeKeepsPending(st, commandType, command) ==
    UNION { IF s1.err # NoErr THEN {s1}
            ELSE IF commandType = "rebase" /\ command = "continue" /\ s1.cont # Nil
            THEN InvokeContinuation(s1.cont, s1)
            ELSE IF command = "abort"
            THEN {[s1 EXCEPT !.cont = Nil, !.err = NoErr]}
            ELSE {[s1 EXCEPT !.err = NoErr]}
          : s1 \in RunSkipEditorCommand(st, "git " \o commandType \o " --" \o command) }

\* GenericMerge without the clearing on abort
GenericMergeAbortKeeps(st, commandType, command) ==
    UNION { IF s1.err # NoErr THEN {s1}
            ELSE IF commandType = "rebase" /\ command = "continue" /\ s1.cont # Nil
            THEN LET f == s1.cont
                 IN  InvokeContinuation(f, [s1 EXCEPT !.cont = Nil])
            ELSE {[s1 EXCEPT !.err = NoErr]}
          : s1 \in RunSkipEditorCommand(st, "git " \o commandType \o " --" \o command) }

\* GenericMerge dropping the continuation on the abort of a rebase only
GenericMergeAbortRebaseOnly(st, commandType, command) ==
    UNION { IF s1.err # NoErr THEN {s1}
            ELSE IF commandType = "rebase" /\ command = "continue" /\ s1.cont # Nil
            THEN LET f == s1.cont
                 IN  InvokeContinuation(f, [s1 EXCEPT !.cont = Nil])
            ELSE IF commandType = "rebase" /\ command = "abort"
            THEN {[s1 EXCEPT !.cont = Nil, !.err = NoErr]}
            ELSE {[s1 EXCEPT !.err = NoErr]}
          : s1 \in RunSkipEditorCommand(st, "git " \o commandType \o " --" \o command) }

\* GenericMerge with the error of the command checked after the bookkeeping
GenericMergeLateErrorCheck(st, commandType, command) ==
    UNION { IF commandType = "rebase" /\ command = "continue" /\ s1.cont # Nil
            THEN IF s1.err # NoErr THEN {s1}
                 ELSE LET f == s1.cont
                      IN  InvokeContinuation(f, [s1 EXCEPT !.cont = Nil])
            ELSE IF command = "abort"
            THEN {[s1 EXCEPT !.cont = Nil]}
            ELSE {s1}
          : s1 \in RunSkipEditorCommand(st, "git " \o commandType \o " --" \o command) }

\* GenericMerge clearing the continuation after it has returned
GenericMergeClearsAfter(st, commandType, command) ==
    UNION { IF s1.err # NoErr THEN {s1}
            ELSE IF commandType = "rebase" /\ command = "continue" /\ s1.cont # Nil
            THEN {[r EXCEPT !.cont = Nil] : r \in InvokeContinuation(s1.cont, s1)}
            ELSE IF command = "abort"
            THEN {[s1 EXCEPT !.cont = Nil, !.err = NoErr]}
            ELSE {[s1 EXCEPT !.err = NoErr]}
          : s1 \in RunSkipEditorCommand(st, "git " \o commandType \o " --" \o command) }

\* GenericMerge resuming on the continue of a merge as well
GenericMergeAnyContinue(st, commandType, command) ==
    UNION { IF s1.err # NoErr THEN {s1}
            ELSE IF command = "continue" /\ s1.cont # Nil
            THEN LET f == s1.cont
                 IN  InvokeContinuation(f, [s1 EXCEPT !.cont = Nil])
            ELSE IF command = "abort"
            THEN {[s1 EXCEPT !.cont = Nil, !.err = NoErr]}
            ELSE {[s1 EXCEPT !.err = NoErr]}
          : s1 \in RunSkipEditorCommand(st, "git " \o commandType \o " --" \o command) }

GenericMerge(st, commandType, command) ==
    UNION { IF s1.err # NoErr THEN {s1}
            ELSE IF commandType = "rebase" /\ command = "continue" /\ s1.cont # Nil
            THEN LET f == s1.cont
                 IN  InvokeContinuation(f, [s1 EXCEPT !.cont = Nil])
            ELSE IF command = "abort"
            THEN {[s1 EXCEPT !.cont = Nil, !.err = NoErr]}
            ELSE {[s1 EXCEPT !.err = NoErr]}
          : s1 \in RunSkipEditorCommand(st, "git " \o commandType \o " --" \o command) }

\* ------------------------------------------------------------ rebase starters
InteractiveRebase(st, cs, index, action) ==
    LET g == GenerateGenericRebaseTodo(cs, index, action)
    IN  IF g.err # NoErr THEN {[st EXCEPT !.err = g.err]}
        ELSE RunPreparedCommand(st, PrepareInteractiveRebaseCommand(g.sha, g.todo, TRUE))

RECURSIVE PickLoopAppending(_, _, _)
\* the loop with each line put after the lines built so far
PickLoopAppending(cs, i, todo) ==
    IF i >= Len(cs) THEN todo
    ELSE PickLoopAppending(cs, i + 1, todo \o <<TodoLine("pick", At(cs, i))>>)

RECURSIVE PickLoop(_, _, _)
\* the loop of MoveCommitDown over orderedCommits, from position i
PickLoop(cs, i, todo) ==
    IF i >= Len(cs) THEN todo
    ELSE PickLoop(cs, i + 1, <<TodoLine("pick", At(cs, i))>> \o todo)

\* append(commits[0:index], commits[index+1], commits[index]): the capacity of
\* commits[0:index] reaches past index+1, so the two values are written into
\* the array that commits shares; returns the caller's slice after the append
AppendInPlace(cs, index) ==
    [k \in 1 .. Len(cs) |->
        IF k = index + 1 THEN At(cs, index + 1)
        ELSE IF k = index + 2 THEN At(cs, index)
        ELSE cs[k]]

\* MoveCommitDown asking for one more commit than it uses
MoveCommitDownTwoBeneath(st, cs, index) ==
    IF Len(cs) <= index + 3
    THEN {[st |-> [st EXCEPT !.err = "NoRoom"], commits |-> cs]}
    ELSE LET shared == AppendInPlace(cs, index)
             orderedCommits == Slice0(shared, index + 2)
             todo == PickLoop(orderedCommits, 0, <<>>)
             c == PrepareInteractiveRebaseCommand(At(shared, index + 2).Sha, todo, TRUE)
         IN  {[st |-> r, commits |-> shared] : r \in RunPreparedCommand(st, c)}

\* yields the driver state and the caller's commits slice after the call
MoveCommitDown(st, cs, index) ==
    IF Len(cs) <= index + 2
    THEN {[st |-> [st EXCEPT !.err = "NoRoom"], commits |-> cs]}
    ELSE LET shared == AppendInPlace(cs, index)
             orderedCommits == Slice0(shared, index + 2)
             todo == PickLoop(orderedCommits, 0, <<>>)
             c == PrepareInteractiveRebaseCommand(At(shared, index + 2).Sha, todo, TRUE)
         IN  {[st |-> r, commits |-> shared] : r \in RunPreparedCommand(st, c)}

\* BeginInteractiveRebaseForCommit with the signing check after the launch
BeginChecksGpgLate(st, cs, commitIndex, cfg) ==
    IF Len(cs) - 1 < commitIndex
    THEN {[st EXCEPT !.err = "index outside of range of commits"]}
    ELSE LET g == GenerateGenericRebaseTodo(cs, commitIndex, "edit")
         IN  IF g.err # NoErr THEN {[st EXCEPT !.err = g.err]}
             ELSE {IF usingGpg(cfg) THEN [r EXCEPT !.err = "DisabledForGPG"] ELSE r :
                     r \in RunPreparedCommand(st,
                               PrepareInteractiveRebaseCommand(g.sha, g.todo, TRUE))}

\* BeginInteractiveRebaseForCommit without the signing check
BeginSkipsGpgCheck(st, cs, commitIndex, cfg) ==
    IF Len(cs) - 1 < commitIndex
    THEN {[st EXCEPT !.err = "index outside of range of commits"]}
    ELSE LET g == GenerateGenericRebaseTodo(cs, commitIndex, "edit")
         IN  IF g.err # NoErr THEN {[st EXCEPT !.err = g.err]}
             ELSE RunPreparedCommand(st, PrepareInteractiveRebaseCommand(g.sha, g.todo, TRUE))

BeginInteractiveRebaseForCommit(st, cs, commitIndex, cfg) ==
    IF Len(cs) - 1 < commitIndex
    THEN {[st EXCEPT !.err = "index outside of range of commits"]}
    ELSE IF usingGpg(cfg)
    THEN {[st EXCEPT !.err = "DisabledForGPG"]}
    ELSE LET g == GenerateGenericRebaseTodo(cs, commitIndex, "edit")
         IN  IF g.err # NoErr THEN {[st EXCEPT !.err = g.err]}
             ELSE RunPreparedCommand(st, PrepareInteractiveRebaseCommand(g.sha, g.todo, TRUE))

\* ------------------------------------------------------ DiscardOldFileChanges
\* the end of DiscardOldFileChanges: amend the commit, then continue
AmendAndContinue(st, cfgAmend) ==
    UNION { IF a.cmd THEN {[a.st EXCEPT !.err = "received unexpected pointer to cmd"]}
            ELSE IF a.st.err # NoErr THEN {a.st}
            ELSE GenericMerge(a.st, "rebase", "continue")
          : a \in AmendHead(st, cfgAmend) }

\* the removal of a file that the parent commit does not have
RemoveAndStage(st, fileName) ==
    UNION { IF r.err # NoErr THEN {r} ELSE StageFile(r, fileName)
          : r \in Remove(st, fileName) }

\* DiscardOldFileChanges with the removal left unstaged
DiscardWithoutStaging(st, cs, commitIndex, fileName, cfg, cfgAmend) ==
    UNION { IF s1.err # NoErr THEN {s1}
            ELSE UNION { UNION { IF s3.err # NoErr THEN {s3}
                                 ELSE AmendAndContinue(s3, cfgAmend)
                               : s3 \in IF s2.err # NoErr
                                        THEN Remove(s2, fileName)
                                        ELSE CheckoutFile(s2, "HEAD^", fileName) }
                       : s2 \in RunCommand(s1, "git cat-file -e HEAD^:" \o fileName) }
          : s1 \in BeginInteractiveRebaseForCommit(st, cs, commitIndex, cfg) }

\* DiscardOldFileChanges with the two outcomes of the probe exchanged
DiscardInvertedProbe(st, cs, commitIndex, fileName, cfg, cfgAmend) ==
    UNION { IF s1.err # NoErr THEN {s1}
            ELSE UNION { UNION { IF s3.err # NoErr THEN {s3}
                                 ELSE AmendAndContinue(s3, cfgAmend)
                               : s3 \in IF s2.err = NoErr
                                        THEN RemoveAndStage(s2, fileName)
                                        ELSE CheckoutFile(s2, "HEAD^", fileName) }
                       : s2 \in RunCommand(s1, "git cat-file -e HEAD^:" \o fileName) }
          : s1 \in BeginInteractiveRebaseForCommit(st, cs, commitIndex, cfg) }

\* DiscardOldFileChanges going on to amend when the checkout or the staging failed
DiscardIgnoresStepError(st, cs, commitIndex, fileName, cfg, cfgAmend) ==
    UNION { IF s1.err # NoErr THEN {s1}
            ELSE UNION { UNION { AmendAndContinue(s3, cfgAmend)
                               : s3 \in IF s2.err # NoErr
                                        THEN RemoveAndStage(s2, fileName)
                                        ELSE CheckoutFile(s2, "HEAD^", fileName) }
                       : s2 \in RunCommand(s1, "git cat-file -e HEAD^:" \o fileName) }
          : s1 \in BeginInteractiveRebaseForCommit(st, cs, commitIndex, cfg) }

\* DiscardOldFileChanges returning the error of the probe
DiscardReturnsProbeError(st, cs, commitIndex, fileName, cfg, cfgAmend) ==
    UNION { IF s1.err # NoErr THEN {s1}
            ELSE UNION { IF s2.err # NoErr THEN {s2}
                         ELSE UNION { IF s3.err # NoErr THEN {s3}
                                      ELSE AmendAndContinue(s3, cfgAmend)
                                    : s3 \in CheckoutFile(s2, "HEAD^", fileName) }
                       : s2 \in RunCommand(s1, "git cat-file -e HEAD^:" \o fileName) }
          : s1 \in BeginInteractiveRebaseForCommit(st, cs, commitIndex, cfg) }

\* cfg is the git configuration when the rebase is begun, cfgAmend when
\* AmendHead reads it
DiscardOldFileChanges(st, cs, commitIndex, fileName, cfg, cfgAmend) ==
    UNION { IF s1.err # NoErr THEN {s1}
            ELSE UNION { UNION { IF s3.err # NoErr THEN {s3}
                                 ELSE AmendAndContinue(s3, cfgAmend)
                               : s3 \in IF s2.err # NoErr
                                        THEN RemoveAndStage(s2, fileName)
                                        ELSE CheckoutFile(s2, "HEAD^", fileName) }
                       : s2 \in RunCommand(s1, "git cat-file -e HEAD^:" \o fileName) }
          : s1 \in BeginInteractiveRebaseForCommit(st, cs, commitIndex, cfg) }

\* ---------------------------------------------- EditRebaseTodo, MoveTodoDown
RECURSIVE SplitLoop(_, _, _)
\* strings.Split(s, sep) for a separator of one byte, cur being the piece begun
SplitLoop(s, sep, cur) ==
    IF s = "" THEN <<cur>>
    ELSE IF SubSeq(s, 1, 1) = sep
    THEN <<cur>> \o SplitLoop(SubSeq(s, 2, Len(s)), sep, "")
    ELSE SplitLoop(SubSeq(s, 2, Len(s)), sep, cur \o SubSeq(s, 1, 1))

Split(s, sep) == SplitLoop(s, sep, "")

RECURSIVE Join(_, _)
\* strings.Join(elems, sep)
Join(elems, sep) ==
    IF elems = <<>> THEN ""
    ELSE IF Len(elems) = 1 THEN elems[1]
    ELSE elems[1] \o sep \o Join(Tail(elems), sep)

HasPrefix(s, prefix) ==
    Len(s) >= Len(prefix) /\ SubSeq(s, 1, Len(prefix)) = prefix

RECURSIVE getTodoCommitCount(_)
\* count lines that are not blank and are not comments
getTodoCommitCount(content) ==
    IF content = <<>> THEN 0
    ELSE (IF Head(content) # "" /\ ~HasPrefix(Head(content), "#") THEN 1 ELSE 0)
         + getTodoCommitCount(Tail(content))

ReadErr == "open .git/rebase-merge/git-rebase-todo: cannot read"
WriteErr == "open .git/rebase-merge/git-rebase-todo: cannot write"

\* ioutil.WriteFile(fileName, result): the file and the error afterwards; a
\* failing write leaves the file as it was or truncated
WriteFile(file, result) ==
    {[file |-> result, err |-> NoErr, panic |-> FALSE],
     [file |-> file, err |-> WriteErr, panic |-> FALSE],
     [file |-> "", err |-> WriteErr, panic |-> FALSE]}

\* file is the content of the todo file; yields the content and the error
\* afterwards, or panic when an index expression is out of range
EditRebaseTodo(file, index, action) ==
    {[file |-> file, err |-> ReadErr, panic |-> FALSE]}
    \cup LET content == Split(file, "\n")
             commitCount == getTodoCommitCount(content)
             contentIndex == commitCount - 1 - index
         IN  IF contentIndex < 0 \/ contentIndex >= Len(content)
             THEN {[file |-> file, err |-> NoErr, panic |-> TRUE]}
             ELSE LET splitLine == Split(At(content, contentIndex), " ")
                      edited == [content EXCEPT ![contentIndex + 1] =
                                    action \o " " \o Join(Tail(splitLine), " ")]
                  IN  WriteFile(file, Join(edited, "\n"))

MoveTodoDown(file, index) ==
    {[file |-> file, err |-> ReadErr, panic |-> FALSE]}
    \cup LET content == Split(file, "\n")
             commitCount == getTodoCommitCount(content)
             contentIndex == commitCount - 1 - index
         IN  IF contentIndex - 1 < 0 \/ contentIndex >= Len(content)
             THEN {[file |-> file, err |-> NoErr, panic |-> TRUE]}
             ELSE LET \* append(content[0:contentIndex-1], content[contentIndex],
                      \* content[contentIndex-1]) writes into the array of content
                      shared == [k \in 1 .. Len(content) |->
                                    IF k = contentIndex THEN At(content, contentIndex)
                                    ELSE IF k = contentIndex + 1
                                    THEN At(content, contentIndex - 1)
                                    ELSE content[k]]
                      rearrangedContent ==
                          Slice0(shared, contentIndex + 1)
                          \o SubSeq(shared, contentIndex + 2, Len(shared))
                  IN  WriteFile(file, Join(rearrangedContent, "\n"))

\* ------------------------------------------------------------- GetCommitFiles
\* patchManager.GetFileStatus(file): the status recorded for the file
GetFileStatus(pm, file) ==
    IF file \in DOMAIN pm.fileInfoMap THEN pm.fileInfoMap[file] ELSE "UNSELECTED"

\* strings.Split(strings.TrimRight(files, "\n"), "\n"), listed being the lines
\* of the output of git show: an empty output gives one empty name
ListedNames(listed) == IF listed = <<>> THEN <<"">> ELSE listed

\* the body of the loop with the status taken from any patch manager
CommitFileOfAnyTarget(commitSha, pm, file) ==
    [Sha |-> commitSha, Name |-> file, DisplayString |-> file,
     Status |-> IF ~pm.isNil THEN GetFileStatus(pm, file) ELSE "UNSELECTED"]

\* the body of the loop of GetCommitFiles: the CommitFile of one listed file
CommitFileOf(commitSha, pm, file) ==
    [Sha |-> commitSha, Name |-> file, DisplayString |-> file,
     Status |-> IF ~pm.isNil /\ pm.CommitSha = commitSha
                THEN GetFileStatus(pm, file) ELSE "UNSELECTED"]

\* yields the driver state and the commit files returned (nil with an error)
GetCommitFiles(st, commitSha, pm, listed) ==
    { IF s1.err # NoErr THEN [st |-> s1, commitFiles |-> <<>>]
      ELSE [st |-> s1,
            commitFiles |-> [k \in 1 .. Len(ListedNames(listed)) |->
                                CommitFileOf(commitSha, pm, ListedNames(listed)[k])]]
    : s1 \in RunCommand(st, "git show --pretty= --name-only --no-renames " \o commitSha) }

\* ------------------------------------------------------ DiscardAllFileChanges
\* c.removeFile, which is os.RemoveAll
removeFile(st, fileName) == Run(st, Cmd("removeFile " \o fileName, "", <<>>, "", FALSE))

DiscardUnstagedFileChanges(st, file) ==
    RunCommand(st, "git checkout -- " \o Quote(file.Name))

\* DiscardAllFileChanges resetting for staged changes only
DiscardAllResetsStagedOnly(st, file) ==
    UNION { IF s1.err # NoErr THEN {s1}
            ELSE IF ~file.Tracked THEN removeFile(s1, file.Name)
            ELSE DiscardUnstagedFileChanges(s1, file)
          : s1 \in IF file.HasStagedChanges
                   THEN RunCommand(st, "git reset -- " \o Quote(file.Name))
                   ELSE {st} }

DiscardAllFileChanges(st, file) ==
    UNION { IF s1.err # NoErr THEN {s1}
            ELSE IF ~file.Tracked THEN removeFile(s1, file.Name)
            ELSE DiscardUnstagedFileChanges(s1, file)
          : s1 \in IF file.HasStagedChanges \/ file.HasMergeConflicts
                   THEN RunCommand(st, "git reset -- " \o Quote(file.Name))
                   ELSE {st} }

\* ------------------------------------------------------------- GetStatusFiles
\* s[lo:hi] of a Go string, lo and hi counted from 0; out of range panics
StrSlice(s, lo, hi) == SubSeq(s, lo + 1, hi)

RECURSIVE Unquote(_)
\* strings.Replace(message, `"`, "", -1)
Unquote(message) ==
    IF message = "" THEN ""
    ELSE (IF StrSlice(message, 0, 1) = "\"" THEN "" ELSE StrSlice(message, 0, 1))
         \o Unquote(StrSlice(message, 1, Len(message)))

\* the paths that exist on disk as regular files
OnDisk == {"a.txt"}
FileType(filename) == IF filename \in OnDisk THEN "file" ELSE "other"

\* the slice expressions of the loop body panic on a line of fewer than 3 bytes
SlicePanics(statusString) == Len(statusString) < 3

\* the body of the loop with DU counted among the inline conflicts
FileOfLineInlineDU(statusString) ==
    LET change == StrSlice(statusString, 0, 2)
        stagedChange == StrSlice(change, 0, 1)
        unstagedChange == StrSlice(statusString, 1, 2)
        filename == Unquote(StrSlice(statusString, 3, Len(statusString)))
        untracked == change \in {"??", "A ", "AM"}
        hasNoStagedChanges == stagedChange \in {" ", "U", "?"}
        hasMergeConflicts == change = "UU" \/ change = "AA" \/ change = "DU"
        hasInlineMergeConflicts == change = "UU" \/ change = "AA" \/ change = "DU"
    IN  [Name |-> filename, DisplayString |-> statusString,
         HasStagedChanges |-> ~hasNoStagedChanges,
         HasUnstagedChanges |-> unstagedChange # " ",
         Tracked |-> ~untracked,
         Deleted |-> (unstagedChange = "D" \/ stagedChange = "D"),
         HasMergeConflicts |-> hasMergeConflicts,
         HasInlineMergeConflicts |-> hasInlineMergeConflicts,
         Type |-> FileType(filename),
         ShortStatus |-> change]

\* the body of the loop with the staged column read for the unstaged change
FileOfLineStagedColumn(statusString) ==
    LET change == StrSlice(statusString, 0, 2)
        stagedChange == StrSlice(change, 0, 1)
        unstagedChange == StrSlice(statusString, 0, 1)
        filename == Unquote(StrSlice(statusString, 3, Len(statusString)))
        untracked == change \in {"??", "A ", "AM"}
        hasNoStagedChanges == stagedChange \in {" ", "U", "?"}
        hasMergeConflicts == change = "UU" \/ change = "AA" \/ change = "DU"
        hasInlineMergeConflicts == change = "UU" \/ change = "AA"
    IN  [Name |-> filename, DisplayString |-> statusString,
         HasStagedChanges |-> ~hasNoStagedChanges,
         HasUnstagedChanges |-> unstagedChange # " ",
         Tracked |-> ~untracked,
         Deleted |-> (unstagedChange = "D" \/ stagedChange = "D"),
         HasMergeConflicts |-> hasMergeConflicts,
         HasInlineMergeConflicts |-> hasInlineMergeConflicts,
         Type |-> FileType(filename),
         ShortStatus |-> change]

\* the body of the loop of GetStatusFiles: the File of one status line
FileOfLine(statusString) ==
    LET change == StrSlice(statusString, 0, 2)
        stagedChange == StrSlice(change, 0, 1)
        unstagedChange == StrSlice(statusString, 1, 2)
        filename == Unquote(StrSlice(statusString, 3, Len(statusString)))
        untracked == change \in {"??", "A ", "AM"}
        hasNoStagedChanges == stagedChange \in {" ", "U", "?"}
        hasMergeConflicts == change = "UU" \/ change = "AA" \/ change = "DU"
        hasInlineMergeConflicts == change = "UU" \/ change = "AA"
    IN  [Name |-> filename, DisplayString |-> statusString,
         HasStagedChanges |-> ~hasNoStagedChanges,
         HasUnstagedChanges |-> unstagedChange # " ",
         Tracked |-> ~untracked,
         Deleted |-> (unstagedChange = "D" \/ stagedChange = "D"),
         HasMergeConflicts |-> hasMergeConflicts,
         HasInlineMergeConflicts |-> hasInlineMergeConflicts,
         Type |-> FileType(filename),
         ShortStatus |-> change]

RECURSIVE StatusLoop(_, _, _)
\* the loop of GetStatusFiles over statusStrings, from position i
StatusLoop(statusStrings, i, fs) ==
    IF i >= Len(statusStrings) THEN [files |-> fs, panic |-> FALSE]
    ELSE IF SlicePanics(At(statusStrings, i)) THEN [files |-> <<>>, panic |-> TRUE]
    ELSE StatusLoop(statusStrings, i + 1, Append(fs, FileOfLine(At(statusStrings, i))))

\* statusStrings are the lines of the output of git status; yields the files
\* returned, or panic when the call does not return
GetStatusFiles(statusStrings) == StatusLoop(statusStrings, 0, <<>>)

\* ----------------------------------------------------------- MergeStatusFiles
includesInt(list, a) == \E k \in 1 .. Len(list) : list[k] = a

RECURSIVE MatchLoop(_, _, _)
\* the inner loop: the index of the first new file named as oldFile, or -1
MatchLoop(oldFile, newFiles, newIndex) ==
    IF newIndex >= Len(newFiles) THEN -1
    ELSE IF oldFile.Name = At(newFiles, newIndex).Name THEN newIndex
    ELSE MatchLoop(oldFile, newFiles, newIndex + 1)

RECURSIVE RetainLoopKeepsOld(_, _, _, _)
\* the first loop appending the file it holds in place of the new one
RetainLoopKeepsOld(oldFiles, newFiles, i, acc) ==
    IF i >= Len(oldFiles) THEN acc
    ELSE LET newIndex == MatchLoop(At(oldFiles, i), newFiles, 0)
         IN  IF newIndex = -1 THEN RetainLoopKeepsOld(oldFiles, newFiles, i + 1, acc)
             ELSE RetainLoopKeepsOld(oldFiles, newFiles, i + 1,
                      [result |-> Append(acc.result, At(oldFiles, i)),
                       appendedIndexes |-> Append(acc.appendedIndexes, newIndex)])

RECURSIVE RetainLoop(_, _, _, _)
\* the first loop: retain position of files we already could see
RetainLoop(oldFiles, newFiles, i, acc) ==
    IF i >= Len(oldFiles) THEN acc
    ELSE LET newIndex == MatchLoop(At(oldFiles, i), newFiles, 0)
         IN  IF newIndex = -1 THEN RetainLoop(oldFiles, newFiles, i + 1, acc)
             ELSE RetainLoop(oldFiles, newFiles, i + 1,
                      [result |-> Append(acc.result, At(newFiles, newIndex)),
                       appendedIndexes |-> Append(acc.appendedIndexes, newIndex)])

RECURSIVE AppendLoop(_, _, _)
\* the second loop: append any new files to the end
AppendLoop(newFiles, index, acc) ==
    IF index >= Len(newFiles) THEN acc
    ELSE IF ~includesInt(acc.appendedIndexes, index)
    THEN AppendLoop(newFiles, index + 1,
                    [acc EXCEPT !.result = Append(@, At(newFiles, index))])
    ELSE AppendLoop(newFiles, index + 1, acc)

\* MergeStatusFiles returning the empty list it was given
MergeStatusFilesReturnsOld(oldFiles, newFiles) ==
    IF Len(oldFiles) = 0 THEN oldFiles
    ELSE AppendLoop(newFiles, 0,
            RetainLoop(oldFiles, newFiles, 0,
                       [result |-> <<>>, appendedIndexes |-> <<>>])).result

MergeStatusFiles(oldFiles, newFiles) ==
    IF Len(oldFiles) = 0 THEN newFiles
    ELSE AppendLoop(newFiles, 0,
            RetainLoop(oldFiles, newFiles, 0,
                       [result |-> <<>>, appendedIndexes |-> <<>>])).result

\* ---------------------------------------------------------------- the state
VARIABLES
    commits,                \* the caller's commit list, newest first
    onSuccessfulContinue,   \* GitCommand.onSuccessfulContinue, Nil when nil
    invoked,                \* how often each continuation has been called
    nextId,                 \* identity of the next continuation to be created
    calls,                  \* external calls issued by the last operation, in order
    last,                   \* the last operation: its arguments and what it returned
    aborted,                \* continuations that were pending at a successful abort
    abortReceived,          \* an abort was requested since the last rebase start
    abortOk,                \* an abort succeeded since the last rebase start
    moves,                  \* calls of MoveCommitDown since the history was loaded
    statusOutput,           \* the lines of the output of git status
    files,                  \* the files returned by the last GetStatusFiles
    crashed,                \* the process has panicked
    mergeOld,               \* the files the caller holds
    mergeNew,               \* the files the caller has just read
    merged,                 \* the files returned by the last MergeStatusFiles
    patchManager,           \* the patch manager handed to GetCommitFiles
    commitFiles,            \* the files returned by the last GetCommitFiles
    todoFile                \* the content of .git/rebase-merge/git-rebase-todo

fileVars == <<patchManager, commitFiles, todoFile>>

statusVars == <<statusOutput, files, crashed, mergeOld, mergeNew, merged, fileVars>>

rebaseVars == <<commits, onSuccessfulContinue, invoked, nextId, aborted, abortReceived,
                abortOk, moves>>

vars == <<commits, onSuccessfulContinue, invoked, nextId, calls, last, aborted,
          abortReceived, abortOk, moves, statusVars>>

NoTodo == [todo |-> <<>>, sha |-> "", err |-> NoErr]

Op(name, commandType, command, index, action, fileName, gpg, gpgAmend, plan, err) ==
    [op |-> name, commandType |-> commandType, command |-> command, index |-> index,
     action |-> action, fileName |-> fileName, gpg |-> gpg, gpgAmend |-> gpgAmend,
     pending |-> onSuccessfulContinue, plan |-> plan, err |-> err]

\* the driver state an operation starts from
St == [cont |-> onSuccessfulContinue, invoked |-> invoked, calls |-> <<>>, err |-> NoErr]


\* no patch manager
NoPatchManager == [isNil |-> TRUE, CommitSha |-> "", fileInfoMap |-> <<>>]

\* no commit files listed, no rebase todo file
FileIdle ==
    /\ patchManager = NoPatchManager
    /\ commitFiles = <<>>
    /\ todoFile = ""

\* nothing read from git status, nothing merged
StatusIdle ==
    /\ statusOutput = <<>>
    /\ files = <<>>
    /\ crashed = FALSE
    /\ mergeOld = <<>>
    /\ mergeNew = <<>>
    /\ merged = <<>>
    /\ patchManager = NoPatchManager
    /\ commitFiles = <<>>
    /\ todoFile = ""

\* nothing read from git status, nothing merged, whatever the file variables
StatusIdleButFiles ==
    /\ statusOutput = <<>>
    /\ files = <<>>
    /\ crashed = FALSE
    /\ mergeOld = <<>>
    /\ mergeNew = <<>>
    /\ merged = <<>>

Init ==
    /\ StatusIdle
    /\ commits \in {History(n) : n \in 0 .. MaxCommits}
    /\ onSuccessfulContinue = Nil
    /\ invoked = [k \in 1 .. MaxConts |-> 0]
    /\ nextId = 1
    /\ calls = <<>>
    /\ last = Op("init", "", "", 0, "", "", FALSE, FALSE, NoTodo, NoErr)
    /\ aborted = {}
    /\ abortReceived = FALSE
    /\ abortOk = FALSE
    /\ moves = 0

\* the driver fields after an operation that ended in r
Driver(r) ==
    /\ onSuccessfulContinue' = r.cont
    /\ invoked' = r.invoked
    /\ calls' = r.calls

\* an operation that launches the rebase starts a new rewrite
Started(r) ==
    /\ abortReceived' = IF r.calls # <<>> THEN FALSE ELSE abortReceived
    /\ abortOk' = IF r.calls # <<>> THEN FALSE ELSE abortOk

\* the caller reloads the history
RefreshCommits ==
    /\ \E n \in 0 .. MaxCommits : commits' = History(n)
    /\ commits' # commits
    /\ last' = Op("RefreshCommits", "", "", 0, "", "", FALSE, FALSE, NoTodo, NoErr)
    /\ calls' = <<>>
    /\ moves' = 0
    /\ UNCHANGED <<statusVars, onSuccessfulContinue, invoked, nextId, aborted, abortReceived, abortOk>>

CallGenerateGenericRebaseTodo ==
    \E index \in 0 .. MaxTodoCommits - 1, action \in Verbs :
        LET g == GenerateGenericRebaseTodo(commits, index, action)
        IN  /\ last' = Op("GenerateGenericRebaseTodo", "", "", index, action, "",
                          FALSE, FALSE, g, g.err)
            /\ calls' = <<>>
            /\ UNCHANGED <<statusVars, commits, onSuccessfulContinue, invoked, nextId, aborted,
                           abortReceived, abortOk, moves>>

CallInteractiveRebase ==
    \E index \in Indexes, action \in Verbs :
      \E r \in InteractiveRebase(St, commits, index, action) :
            /\ Driver(r)
            /\ Started(r)
            /\ last' = Op("InteractiveRebase", "", "", index, action, "", FALSE, FALSE,
                          NoTodo, r.err)
            /\ UNCHANGED <<statusVars, commits, nextId, aborted, moves>>

CallMoveCommitDown ==
    \E index \in Indexes :
      \E m \in MoveCommitDown(St, commits, index) :
            /\ moves < MaxMoves
            /\ moves' = moves + 1
            /\ Driver(m.st)
            /\ Started(m.st)
            /\ commits' = m.commits
            /\ last' = Op("MoveCommitDown", "", "", index, "", "", FALSE, FALSE,
                          NoTodo, m.st.err)
            /\ UNCHANGED <<statusVars, nextId, aborted>>

CallBeginInteractiveRebaseForCommit ==
    \E index \in Indexes, cfg \in Configs :
      \E r \in BeginInteractiveRebaseForCommit(St, commits, index, cfg) :
            /\ Driver(r)
            /\ Started(r)
            /\ last' = Op("BeginInteractiveRebaseForCommit", "", "", index, "", "",
                          usingGpg(cfg), usingGpg(cfg), NoTodo, r.err)
            /\ UNCHANGED <<statusVars, commits, nextId, aborted, moves>>

\* the configuration as changed by somebody else while the operation runs
Changed(cfg) == [cfg EXCEPT !.local = IF usingGpg(cfg) THEN "false" ELSE "true"]

CallDiscardOldFileChanges ==
    \E index \in Indexes, fileName \in FileNames, cfg \in Configs, change \in BOOLEAN :
      \E r \in DiscardOldFileChanges(St, commits, index, fileName, cfg,
                                     IF change THEN Changed(cfg) ELSE cfg) :
            /\ Driver(r)
            /\ Started(r)
            /\ last' = Op("DiscardOldFileChanges", "", "", index, "", fileName,
                          usingGpg(cfg), usingGpg(IF change THEN Changed(cfg) ELSE cfg),
                          NoTodo, r.err)
            /\ UNCHANGED <<statusVars, commits, nextId, aborted, moves>>

CallGenericMerge ==
    \E commandType \in {"merge", "rebase"}, command \in {"abort", "skip", "continue"} :
      \E r \in GenericMerge(St, commandType, command) :
        LET okAbort == command = "abort" /\ r.err = NoErr
        IN  /\ Driver(r)
            /\ last' = Op("GenericMerge", commandType, command, 0, "", "", FALSE, FALSE,
                          NoTodo, r.err)
            /\ aborted' = IF okAbort /\ onSuccessfulContinue # Nil
                          THEN aborted \cup {onSuccessfulContinue.id} ELSE aborted
            /\ abortReceived' = (abortReceived \/ command = "abort")
            /\ abortOk' = (abortOk \/ okAbort)
            /\ UNCHANGED <<statusVars, commits, nextId, moves>>

\* a compound operation queues its next step and requests continue:
\*   c.onSuccessfulContinue = f; return c.GenericMerge("rebase", "continue")
QueueAndContinue ==
    \E kind \in ContKinds :
      \E r \in GenericMerge([St EXCEPT !.cont = [id |-> nextId, kind |-> kind,
                                 child |-> IF kind = "requeue" THEN nextId + 1 ELSE 0]],
                            "rebase", "continue") :
        LET ids == IF kind = "requeue" THEN 2 ELSE 1
            f == [id |-> nextId, kind |-> kind,
                  child |-> IF kind = "requeue" THEN nextId + 1 ELSE 0]
        IN  /\ nextId + ids - 1 <= MaxConts
            /\ Driver(r)
            /\ nextId' = nextId + ids
            /\ last' = [Op("QueueAndContinue", "rebase", "continue", 0, "", "", FALSE, FALSE,
                           NoTodo, r.err) EXCEPT !.pending = f]
            /\ abortReceived' = FALSE
            /\ abortOk' = FALSE
            /\ UNCHANGED <<statusVars, commits, aborted, moves>>

\* the driver: compound operations, continue, skip and abort
Next ==
    \/ CallDiscardOldFileChanges
    \/ CallGenericMerge
    \/ QueueAndContinue

\* the driver works on the longest history
InitDriver ==
    /\ Init
    /\ commits = History(MaxCommits)

Spec == InitDriver /\ [][Next]_vars

\* the operations that start a rebase, on every history the caller can hold
NextStart ==
    \/ RefreshCommits
    \/ CallInteractiveRebase
    \/ CallMoveCommitDown
    \/ CallBeginInteractiveRebaseForCommit
    \/ CallDiscardOldFileChanges

SpecStart == Init /\ [][NextStart]_vars

\* the todo builder on its own: every history, index and verb
InitTodo ==
    /\ StatusIdle
    /\ commits \in {History(n) : n \in 0 .. MaxTodoCommits}
    /\ onSuccessfulContinue = Nil
    /\ invoked = [k \in 1 .. MaxConts |-> 0]
    /\ nextId = 1
    /\ calls = <<>>
    /\ last = Op("init", "", "", 0, "", "", FALSE, FALSE, NoTodo, NoErr)
    /\ aborted = {}
    /\ abortReceived = FALSE
    /\ abortOk = FALSE
    /\ moves = 0

NextTodo == CallGenerateGenericRebaseTodo

SpecTodo == InitTodo /\ [][NextTodo]_vars

\* the status parser on its own: every status output of up to MaxLines lines
StatusChars == {" ", "M", "A", "D", "U", "?"}
StatusPaths == {"a.txt", "\"b c\""}
StatusLines ==
    {x \o y \o " " \o path : x \in StatusChars, y \in StatusChars, path \in StatusPaths}
    \cup {"MM"}
StatusOutputs == UNION {[1 .. n -> StatusLines] : n \in 0 .. MaxLines}

\* no rebase under way, no history loaded
RebaseIdle ==
    /\ commits = <<>>
    /\ onSuccessfulContinue = Nil
    /\ invoked = [k \in 1 .. MaxConts |-> 0]
    /\ nextId = 1
    /\ calls = <<>>
    /\ last = Op("init", "", "", 0, "", "", FALSE, FALSE, NoTodo, NoErr)
    /\ aborted = {}
    /\ abortReceived = FALSE
    /\ abortOk = FALSE
    /\ moves = 0

InitStatus ==
    /\ RebaseIdle
    /\ statusOutput \in StatusOutputs
    /\ files = <<>>
    /\ crashed = FALSE
    /\ mergeOld = <<>>
    /\ mergeNew = <<>>
    /\ merged = <<>>
    /\ FileIdle

CallGetStatusFiles ==
    /\ ~crashed
    /\ LET r == GetStatusFiles(statusOutput)
       IN  /\ files' = r.files
           /\ crashed' = r.panic
    /\ last' = Op("GetStatusFiles", "", "", 0, "", "", FALSE, FALSE, NoTodo, NoErr)
    /\ UNCHANGED <<rebaseVars, calls, statusOutput, mergeOld, mergeNew, merged, fileVars>>

NextStatus == CallGetStatusFiles

SpecStatus == InitStatus /\ [][NextStatus]_vars

\* MergeStatusFiles on its own: every two lists of up to MaxFiles files
HeldFiles == {FileOfLine(" M " \o path) : path \in {"a.txt", "b.go", "c.md"}}
ReadFiles == HeldFiles \cup {FileOfLine("MM " \o path) : path \in {"a.txt", "b.go", "c.md"}}
FileLists(S) == UNION {[1 .. n -> S] : n \in 0 .. MaxFiles}

InitMerge ==
    /\ RebaseIdle
    /\ statusOutput = <<>>
    /\ files = <<>>
    /\ crashed = FALSE
    /\ mergeOld \in FileLists(HeldFiles)
    /\ mergeNew \in FileLists(ReadFiles)
    /\ merged = <<>>
    /\ FileIdle

CallMergeStatusFiles ==
    /\ merged' = MergeStatusFiles(mergeOld, mergeNew)
    /\ last' = Op("MergeStatusFiles", "", "", 0, "", "", FALSE, FALSE, NoTodo, NoErr)
    /\ UNCHANGED <<rebaseVars, calls, statusOutput, files, crashed, mergeOld, mergeNew,
                   fileVars>>

NextMerge == CallMergeStatusFiles

SpecMerge == InitMerge /\ [][NextMerge]_vars

\* DiscardAllFileChanges on its own: every file that one status line gives
InitFile ==
    /\ RebaseIdle
    /\ statusOutput \in {<<line>> : line \in StatusLines \ {"MM"}}
    /\ files = GetStatusFiles(statusOutput).files
    /\ crashed = FALSE
    /\ mergeOld = <<>>
    /\ mergeNew = <<>>
    /\ merged = <<>>
    /\ FileIdle

CallDiscardAllFileChanges ==
    \E k \in 1 .. Len(files) :
      \E r \in DiscardAllFileChanges(St, files[k]) :
            /\ Driver(r)
            /\ last' = Op("DiscardAllFileChanges", "", "", k - 1, "", files[k].Name,
                          FALSE, FALSE, NoTodo, r.err)
            /\ UNCHANGED <<statusVars, commits, nextId, aborted, abortReceived, abortOk,
                           moves>>

NextFile == CallDiscardAllFileChanges

SpecFile == InitFile /\ [][NextFile]_vars

\* GetCommitFiles on its own: every patch manager, commit and listing
ListedFiles == {"a.txt", "b.go"}
PatchManagers ==
    {NoPatchManager}
    \cup {[isNil |-> FALSE, CommitSha |-> sha, fileInfoMap |-> m] :
             sha \in {"", "sha1", "sha2"},
             m \in UNION {[D -> {"WHOLE", "PART"}] : D \in SUBSET ListedFiles}}
Listings == UNION {[1 .. n -> ListedFiles] : n \in 0 .. MaxListed}

InitCommitFiles ==
    /\ RebaseIdle
    /\ StatusIdleButFiles
    /\ patchManager \in PatchManagers
    /\ commitFiles = <<>>
    /\ todoFile = ""

CallGetCommitFiles ==
    \E commitSha \in {"sha1", "sha2"}, listed \in Listings :
      \E r \in GetCommitFiles(St, commitSha, patchManager, listed) :
            /\ Driver(r.st)
            /\ commitFiles' = r.commitFiles
            /\ last' = Op("GetCommitFiles", "", commitSha, 0, "", "", FALSE, FALSE,
                          NoTodo, r.st.err)
            /\ UNCHANGED <<commits, nextId, aborted, abortReceived, abortOk, moves,
                           statusOutput, files, crashed, mergeOld, mergeNew, merged,
                           patchManager, todoFile>>

NextCommitFiles == CallGetCommitFiles

SpecCommitFiles == InitCommitFiles /\ [][NextCommitFiles]_vars

\* the todo file operations on their own: every todo file of up to
\* MaxTodoLines lines that are commits, comments or blank
TodoFileLines == {"pick a1 one", "pick b2 two", "# note", ""}
TodoFiles ==
    {Join(ls, "\n") : ls \in UNION {[1 .. n -> TodoFileLines] : n \in 1 .. MaxTodoLines}}

InitTodoFile ==
    /\ RebaseIdle
    /\ StatusIdleButFiles
    /\ patchManager = NoPatchManager
    /\ commitFiles = <<>>
    /\ todoFile \in TodoFiles

\* the variables that the todo file operations leave alone
TodoFileFrame ==
    UNCHANGED <<rebaseVars, statusOutput, files, mergeOld, mergeNew, merged,
                patchManager, commitFiles>>

CallEditRebaseTodo ==
    /\ ~crashed
    /\ \E index \in 0 .. MaxTodoLines - 1, action \in {"edit"} :
         \E r \in EditRebaseTodo(todoFile, index, action) :
            /\ todoFile' = r.file
            /\ crashed' = r.panic
            /\ calls' = <<>>
            /\ last' = Op("EditRebaseTodo", "", "", index, action, "", FALSE, FALSE,
                          NoTodo, r.err)
    /\ TodoFileFrame

CallMoveTodoDown ==
    /\ ~crashed
    /\ \E index \in 0 .. MaxTodoLines - 1 :
         \E r \in MoveTodoDown(todoFile, index) :
            /\ todoFile' = r.file
            /\ crashed' = r.panic
            /\ calls' = <<>>
            /\ last' = Op("MoveTodoDown", "", "", index, "", "", FALSE, FALSE,
                          NoTodo, r.err)
    /\ TodoFileFrame

NextTodoFile ==
    \/ CallEditRebaseTodo
    \/ CallMoveTodoDown

SpecTodoFile == InitTodoFile /\ [][NextTodoFile]_vars

\* ------------------------------------------------------------------ claims
IsCall(op) == last.op = op
ContinueLine == "git rebase --continue"
ProbeLine(fileName) == "git cat-file -e HEAD^:" \o fileName
StartLine(sha) == "git rebase --interactive --autostash --keep-empty --rebase-merges " \o sha
AmendLine == "git commit --amend --no-edit --allow-empty"
Lines(cs) == [i \in 1 .. Len(cs) |-> cs[i].cmd]
\* the operation requested continue on the rebase and the command succeeded
ContinueSucceeded(cs) == \E i \in 1 .. Len(cs) : cs[i].cmd = ContinueLine /\ cs[i].ok

\* C1: a successful rebase continue with a continuation pending clears that
\* continuation and calls it exactly once, and no continuation is ever called
\* more than once, whatever continue, skip and abort calls are made.
ContinuationOnce ==
    [][ /\ \A k \in 1 .. MaxConts : invoked'[k] <= 1
        /\ (last'.pending # Nil /\ ContinueSucceeded(calls'))
              => /\ invoked'[last'.pending.id] = invoked[last'.pending.id] + 1
                 /\ onSuccessfulContinue' # last'.pending ]_vars

ContinuationOnceWitness ==
    /\ IsCall("GenericMerge") /\ last.command = "continue"
    /\ last.pending # Nil
    /\ calls[1].ok
    /\ invoked[last.pending.id] = 1
    /\ onSuccessfulContinue = Nil

\* C2: after a successful abort nothing is pending, and a continuation that was
\* pending at a successful abort has not been called and is never called later.
AbortDiscards ==
    /\ (IsCall("GenericMerge") /\ last.command = "abort" /\ last.err = NoErr)
          => onSuccessfulContinue = Nil
    /\ \A k \in aborted : invoked[k] = 0 /\ onSuccessfulContinue.id # k

AbortDiscardsWitness ==
    /\ IsCall("GenericMerge") /\ last.command = "abort" /\ last.err = NoErr
    /\ last.pending # Nil
    /\ last.pending.id \in aborted
    /\ invoked[last.pending.id] = 0
    /\ onSuccessfulContinue = Nil

\* C3 as stated: after an abort that succeeded nothing is pending and every
\* continue requested before a new rebase is started is rejected by the driver
\* as invalid state: it returns an error and passes nothing to git.
AbortRejectsContinue ==
    abortOk =>
        /\ onSuccessfulContinue = Nil
        /\ (IsCall("GenericMerge") /\ last.command = "continue")
              => last.err # NoErr /\ calls = <<>>

\* C3 amended: after an abort that succeeded nothing is pending; a continue
\* requested before a new rebase is started is not rejected by the driver, it
\* is passed to git once and git's result is returned; it calls no continuation.
AbortThenContinue ==
    [][ /\ abortOk' => onSuccessfulContinue' = Nil
        /\ (abortOk /\ last'.op = "GenericMerge" /\ last'.command = "continue")
              => /\ Len(calls') = 1
                 /\ calls'[1].cmd = "git " \o last'.commandType \o " --continue"
                 /\ last'.err = IF calls'[1].ok THEN NoErr ELSE ToolErr(calls'[1].cmd)
                 /\ invoked' = invoked
                 /\ onSuccessfulContinue' = Nil ]_vars

AbortThenContinueWitness ==
    /\ abortOk /\ aborted # {}
    /\ IsCall("GenericMerge") /\ last.commandType = "rebase" /\ last.command = "continue"
    /\ last.err = NoErr
    /\ Len(calls) = 1 /\ calls[1].ok
    /\ \A k \in aborted : invoked[k] = 0

\* C4: when the command issued by GenericMerge fails, GenericMerge returns that
\* error, the pending continuation is neither called nor cleared, and the
\* command is issued once only.
FailureKeepsState ==
    [][ (last'.op = "GenericMerge" /\ ~calls'[1].ok)
            => /\ Len(calls') = 1
               /\ last'.err = ToolErr("git " \o last'.commandType \o " --" \o last'.command)
               /\ onSuccessfulContinue' = onSuccessfulContinue
               /\ invoked' = invoked ]_vars

FailureKeepsStateWitness ==
    /\ IsCall("GenericMerge") /\ last.command = "continue" /\ last.commandType = "rebase"
    /\ ~calls[1].ok
    /\ last.err # NoErr
    /\ onSuccessfulContinue # Nil
    /\ invoked[onSuccessfulContinue.id] = 0

ValidationErrors ==
    {"index outside of range of commits", "DisabledForGPG", "CannotRebaseOntoFirstCommit",
     "CannotSquashOntoSecondCommit", "NoRoom"}

\* the arguments of the last call do not pass the validation of its operation
Invalid ==
    \/ /\ last.op \in {"BeginInteractiveRebaseForCommit", "DiscardOldFileChanges"}
       /\ \/ last.index > Len(commits) - 1
          \/ last.gpg
          \/ Len(commits) <= last.index + 1
    \/ /\ last.op = "InteractiveRebase"
       /\ Len(commits) <= last.index + (IF last.action \in {"squash", "fixup"} THEN 2 ELSE 1)
    \/ /\ last.op = "MoveCommitDown"
       /\ Len(commits) <= last.index + 2

\* C5: BeginInteractiveRebaseForCommit, DiscardOldFileChanges, InteractiveRebase
\* and MoveCommitDown validate (index in range, signing off where it is checked,
\* enough history) before they launch anything: a call that fails validation
\* returns the validation error with no external call issued, and no validation
\* error is ever returned after a call was issued.
ValidatedBeforeLaunch ==
    last.op \in {"BeginInteractiveRebaseForCommit", "DiscardOldFileChanges",
                 "InteractiveRebase", "MoveCommitDown"}
    => /\ Invalid => (last.err \in ValidationErrors /\ calls = <<>>)
       /\ calls # <<>> => last.err \notin ValidationErrors
       /\ ~Invalid => (calls # <<>> /\ calls[1].client = "INTERACTIVE_REBASE")

ValidatedBeforeLaunchWitness ==
    /\ IsCall("DiscardOldFileChanges")
    /\ last.gpg
    /\ Len(commits) > last.index + 1
    /\ last.err = "DisabledForGPG"
    /\ calls = <<>>

Discarded == IsCall("DiscardOldFileChanges")
ProbeFailed == Len(calls) >= 2 /\ calls[2].cmd = ProbeLine(last.fileName) /\ ~calls[2].ok
ProbeOk == Len(calls) >= 2 /\ calls[2].cmd = ProbeLine(last.fileName) /\ calls[2].ok
\* every step of the operation other than the probe succeeded
StepsOk ==
    /\ ~Invalid
    /\ last.err # "received unexpected pointer to cmd"
    /\ \A i \in 1 .. Len(calls) : calls[i].cmd # ProbeLine(last.fileName) => calls[i].ok
RemoveLine == "remove " \o last.fileName
AddLine == "git add \"" \o last.fileName \o "\""
CheckoutLine == "git checkout HEAD^ " \o last.fileName
Has(line) == \E i \in 1 .. Len(calls) : calls[i].cmd = line

\* C6 as stated: when the probe finds the file absent from the parent and every
\* step succeeds, the operation makes exactly 4 external calls: the removal, its
\* staging, the amend and the continue.
DiscardAbsentFourCalls ==
    (Discarded /\ ProbeFailed /\ StepsOk)
        => Lines(calls) = <<RemoveLine, AddLine, AmendLine, ContinueLine>>

\* C6 amended: when the probe finds the file absent, the file is never checked
\* out from the parent; when every step succeeds the operation makes 6 external
\* calls: the rebase start, the probe, and then exactly 4 in this order: the
\* removal, its staging, the amend and the continue; only a continuation that
\* was pending at the call adds calls after these.
DiscardAbsentCalls ==
    (Discarded /\ ProbeFailed)
        => /\ ~Has(CheckoutLine)
           /\ StepsOk =>
                /\ Len(calls) >= 6
                /\ SubSeq(Lines(calls), 1, 6) =
                      <<StartLine(At(commits, last.index + 1).Sha), ProbeLine(last.fileName),
                        RemoveLine, AddLine, AmendLine, ContinueLine>>
                /\ last.pending = Nil => Len(calls) = 6

DiscardAbsentCallsWitness ==
    /\ Discarded /\ ProbeFailed /\ StepsOk
    /\ last.pending = Nil
    /\ last.err = NoErr
    /\ Len(calls) = 6

\* C7 as stated: when the probe finds the file in the parent and every step
\* succeeds, the external calls are exactly the rebase start onto
\* commits[commitIndex+1], the probe, the checkout from HEAD^, the amend and
\* the continue, and no others.
DiscardPresentFiveCalls ==
    (Discarded /\ ProbeOk /\ StepsOk)
        => Lines(calls) = <<StartLine(At(commits, last.index + 1).Sha),
                            ProbeLine(last.fileName), CheckoutLine, AmendLine, ContinueLine>>

\* C7 amended: when the probe finds the file in the parent the file is never
\* removed or staged; when every step succeeds the first five external calls are
\* the rebase start onto commits[commitIndex+1], the probe, the checkout from
\* HEAD^, the amend and the continue, and these are all the calls unless a
\* continuation was pending at the call, which the continue then runs.
DiscardPresentCalls ==
    (Discarded /\ ProbeOk)
        => /\ ~Has(RemoveLine) /\ ~Has(AddLine)
           /\ StepsOk =>
                /\ Len(calls) >= 5
                /\ SubSeq(Lines(calls), 1, 5) =
                      <<StartLine(At(commits, last.index + 1).Sha), ProbeLine(last.fileName),
                        CheckoutLine, AmendLine, ContinueLine>>
                /\ last.pending = Nil => Len(calls) = 5

DiscardPresentCallsWitness ==
    /\ Discarded /\ ProbeOk /\ StepsOk
    /\ last.pending = Nil
    /\ last.err = NoErr
    /\ Len(calls) = 5
    /\ last.index = 1

\* C8 as stated: in DiscardOldFileChanges a failing step, the probe included,
\* is the last external call and its error is what the operation returns.
DiscardStopsAtAnyFailure ==
    Discarded =>
        \A i \in 1 .. Len(calls) :
            ~calls[i].ok => (i = Len(calls) /\ last.err = ToolErr(calls[i].cmd))

\* C8 amended: in DiscardOldFileChanges a failing step other than the probe
\* (start, remove, stage, checkout, amend, continue) is the last external call
\* and its error is what the operation returns; a failing probe ends nothing.
DiscardStopsAtFailure ==
    Discarded =>
        \A i \in 1 .. Len(calls) :
            (~calls[i].ok /\ calls[i].cmd # ProbeLine(last.fileName))
                => (i = Len(calls) /\ last.err = ToolErr(calls[i].cmd))

DiscardStopsAtFailureWitness ==
    /\ Discarded /\ ProbeFailed
    /\ Len(calls) = 4
    /\ calls[3].cmd = RemoveLine /\ calls[3].ok
    /\ calls[4].cmd = AddLine /\ ~calls[4].ok
    /\ last.err = ToolErr(AddLine)

\* C9: GenerateGenericRebaseTodo fails exactly when len(commits) <= baseIndex,
\* baseIndex being actionIndex+1, and actionIndex+2 for squash and fixup.
TodoFailsIff ==
    IsCall("GenerateGenericRebaseTodo")
    => LET baseIndex == last.index + (IF last.action \in {"squash", "fixup"} THEN 2 ELSE 1)
       IN  (last.err # NoErr) <=> (Len(commits) <= baseIndex)

TodoFailsIffWitness ==
    /\ IsCall("GenerateGenericRebaseTodo")
    /\ last.action = "fixup"
    /\ last.index = 1
    /\ Len(commits) = last.index + 2
    /\ last.err = "CannotSquashOntoSecondCommit"

\* C10: a plan that is built has baseIndex lines, line k (from 0, top first) is
\* "<verb> <sha> <subject>" of commits[baseIndex-1-k], and the verb is pick on
\* every line but the one of commits[actionIndex], which has the requested verb.
TodoOldestFirst ==
    (IsCall("GenerateGenericRebaseTodo") /\ last.err = NoErr)
    => LET baseIndex == last.index + (IF last.action \in {"squash", "fixup"} THEN 2 ELSE 1)
           todo == last.plan.todo
       IN  /\ Len(todo) = baseIndex
           /\ \A k \in 0 .. baseIndex - 1 :
                LET j == baseIndex - 1 - k
                    verb == IF j = last.index THEN last.action ELSE "pick"
                IN  At(todo, k) = verb \o " " \o At(commits, j).Sha \o " " \o At(commits, j).Name

TodoOldestFirstWitness ==
    /\ IsCall("GenerateGenericRebaseTodo")
    /\ last.err = NoErr
    /\ last.action = "squash"
    /\ last.index = 1
    /\ Len(last.plan.todo) = 3
    /\ At(last.plan.todo, 0) = "pick sha3 subject3"
    /\ At(last.plan.todo, 1) = "squash sha2 subject2"
    /\ At(last.plan.todo, 2) = "pick sha1 subject1"

\* the index of the base of the plan of the last GenerateGenericRebaseTodo
BaseIndex == last.index + (IF last.action \in {"squash", "fixup"} THEN 2 ELSE 1)

\* C11: a plan that is built comes with the sha of commits[baseIndex], the
\* commit next older than the oldest commit of the plan, and no line of the
\* plan is a line of that commit.
TodoBaseBelowPlan ==
    (IsCall("GenerateGenericRebaseTodo") /\ last.err = NoErr)
    => /\ last.plan.sha = At(commits, BaseIndex).Sha
       /\ TodoLine("pick", At(commits, BaseIndex - 1)) = At(last.plan.todo, 0)
           \/ TodoLine(last.action, At(commits, BaseIndex - 1)) = At(last.plan.todo, 0)
       /\ \A k \in 1 .. Len(last.plan.todo), a \in Verbs :
              last.plan.todo[k] # TodoLine(a, At(commits, BaseIndex))

TodoBaseBelowPlanWitness ==
    /\ IsCall("GenerateGenericRebaseTodo")
    /\ last.err = NoErr
    /\ last.action = "edit"
    /\ last.index = 1
    /\ Len(commits) = 4
    /\ last.plan.sha = "sha3"
    /\ last.plan.todo = <<"edit sha2 subject2", "pick sha1 subject1">>

\* C12: MoveCommitDown(commits, i) fails with NoRoom and starts nothing when
\* len(commits) <= i+2; otherwise it starts the rebase onto commits[i+2] with a
\* plan of i+2 pick lines: commits[i], then commits[i+1], then commits[i-1]
\* down to commits[0], which is commits[0..i+1] oldest first with the entries
\* of commits[i] and commits[i+1] exchanged.  commits is the history as it was
\* when the call was made.
MoveDownPlan ==
    [][last'.op = "MoveCommitDown"
       => LET i == last'.index
          IN  IF Len(commits) <= i + 2
              THEN last'.err = "NoRoom" /\ calls' = <<>>
              ELSE /\ Len(calls') = 1
                   /\ calls'[1].cmd = StartLine(At(commits, i + 2).Sha)
                   /\ Len(calls'[1].todo) = i + 2
                   /\ At(calls'[1].todo, 0) = TodoLine("pick", At(commits, i))
                   /\ At(calls'[1].todo, 1) = TodoLine("pick", At(commits, i + 1))
                   /\ \A k \in 2 .. i + 1 :
                          At(calls'[1].todo, k) = TodoLine("pick", At(commits, i + 1 - k))
                   /\ last'.err \in {NoErr, ToolErr(calls'[1].cmd)}]_vars

MoveDownPlanWitness ==
    /\ IsCall("MoveCommitDown")
    /\ last.index = 1
    /\ last.err = NoErr
    /\ Len(calls) = 1
    /\ calls[1].ok
    /\ calls[1].cmd = StartLine("sha4")
    /\ calls[1].todo = <<"pick sha2 subject2", "pick sha3 subject3", "pick sha1 subject1">>

\* C13 as stated: MoveCommitDown gets past its check only if at least two
\* commits are older than commits[actionIndex+1], and fails with NoRoom otherwise.
MoveDownNeedsTwoBeneath ==
    IsCall("MoveCommitDown")
    => ((last.err # "NoRoom") <=> (Len(commits) - (last.index + 2) >= 2))

\* C13 amended: MoveCommitDown gets past its check exactly when at least two
\* commits are older than commits[actionIndex], that is when at least one
\* commit, the base commits[actionIndex+2], is older than the two it exchanges;
\* otherwise it fails with NoRoom and starts nothing.
MoveDownNeedsBase ==
    IsCall("MoveCommitDown")
    => /\ (last.err # "NoRoom") <=> (Len(commits) - (last.index + 2) >= 1)
       /\ (last.err = "NoRoom") <=> (calls = <<>>)

MoveDownNeedsBaseWitness ==
    /\ IsCall("MoveCommitDown")
    /\ Len(commits) = last.index + 3
    /\ last.err = NoErr
    /\ Len(calls) = 1
    /\ calls[1].ok

\* C14: in a plan built for squash or fixup the line of that verb is the
\* second line, the line before it is the pick of commits[actionIndex+1], and
\* commits[actionIndex+1] is not the base the plan comes with.
FoldHasPickBeneath ==
    (IsCall("GenerateGenericRebaseTodo") /\ last.err = NoErr
        /\ last.action \in {"squash", "fixup"})
    => /\ Len(last.plan.todo) >= 2
       /\ At(last.plan.todo, 0) = TodoLine("pick", At(commits, last.index + 1))
       /\ At(last.plan.todo, 1) = TodoLine(last.action, At(commits, last.index))
       /\ \A k \in 0 .. Len(last.plan.todo) - 1 :
              k # 1 => At(last.plan.todo, k) # TodoLine(last.action, At(commits, last.index))
       /\ last.plan.sha # At(commits, last.index + 1).Sha

FoldHasPickBeneathWitness ==
    /\ IsCall("GenerateGenericRebaseTodo")
    /\ last.err = NoErr
    /\ last.action = "fixup"
    /\ last.index = 0
    /\ Len(commits) = 3
    /\ last.plan.todo = <<"pick sha2 subject2", "fixup sha1 subject1">>
    /\ last.plan.sha = "sha3"

\* how many times the file f occurs in the list fs
Count(fs, f) == Cardinality({k \in 1 .. Len(fs) : fs[k] = f})
Entries(fs) == {fs[k] : k \in 1 .. Len(fs)}

\* C15: MergeStatusFiles(old, new) returns exactly the entries of new, each
\* as many times as new holds it, and as many entries as new has, for all old
\* and new, an old list with a repeated name included.
MergeKeepsExactlyNew ==
    IsCall("MergeStatusFiles")
    => /\ Len(merged) = Len(mergeNew)
       /\ \A f \in Entries(merged) \cup Entries(mergeNew) :
              Count(merged, f) = Count(mergeNew, f)

\* the position in mergeNew of the first file named as f, 0 when there is none
FirstMatch(f) ==
    IF \E k \in 1 .. Len(mergeNew) : mergeNew[k].Name = f.Name
    THEN CHOOSE k \in 1 .. Len(mergeNew) :
            /\ mergeNew[k].Name = f.Name
            /\ \A j \in 1 .. k - 1 : mergeNew[j].Name # f.Name
    ELSE 0
IsMatched(f) == FirstMatch(f) # 0
\* the positions of mergeNew that no file of mergeOld is matched with
IsLeft(k) == \A j \in 1 .. Len(mergeOld) : FirstMatch(mergeOld[j]) # k
Positions == [k \in 1 .. Len(mergeNew) |-> k]
MatchedOld == SelectSeq(mergeOld, IsMatched)
LeftNew == SelectSeq(Positions, IsLeft)

\* C16: for a non-empty old, the result is, for each old entry that has a new
\* entry of its name, in the order of old, that new entry (the first of the
\* name, with the flags new gives it), followed by the new entries no old
\* entry was matched with, in the order of new; an old entry without a match
\* gives nothing.
MergeOrder ==
    (IsCall("MergeStatusFiles") /\ mergeOld # <<>>)
    => merged = [k \in 1 .. Len(MatchedOld) |-> mergeNew[FirstMatch(MatchedOld[k])]]
                \o [k \in 1 .. Len(LeftNew) |-> mergeNew[LeftNew[k]]]

MergeOrderWitness ==
    /\ IsCall("MergeStatusFiles")
    /\ mergeOld = <<FileOfLine(" M a.txt"), FileOfLine(" M b.go")>>
    /\ mergeNew = <<FileOfLine("MM c.md"), FileOfLine("MM b.go")>>
    /\ merged = <<FileOfLine("MM b.go"), FileOfLine("MM c.md")>>

\* C17: MergeStatusFiles of an empty old and new is new: the same entries in
\* the same order, for every new, the empty one included.
MergeEmptyOld ==
    (IsCall("MergeStatusFiles") /\ mergeOld = <<>>)
    => /\ Len(merged) = Len(mergeNew)
       /\ \A k \in 1 .. Len(mergeNew) : merged[k] = mergeNew[k]

MergeEmptyOldWitness ==
    /\ IsCall("MergeStatusFiles")
    /\ mergeOld = <<>>
    /\ mergeNew = <<FileOfLine("MM c.md"), FileOfLine(" M a.txt")>>
    /\ merged = mergeNew

\* the 2-character code of line k of the status output
Code(k) == SubSeq(statusOutput[k], 1, 2)
Parsed == IsCall("GetStatusFiles") /\ ~crashed

\* C18: the record of a status line has HasMergeConflicts exactly for the
\* codes UU, AA and DU and HasInlineMergeConflicts exactly for UU and AA, so
\* HasInlineMergeConflicts implies HasMergeConflicts.
ConflictFlags ==
    Parsed
    => \A k \in 1 .. Len(files) :
          /\ files[k].HasMergeConflicts <=> Code(k) \in {"UU", "AA", "DU"}
          /\ files[k].HasInlineMergeConflicts <=> Code(k) \in {"UU", "AA"}
          /\ files[k].HasInlineMergeConflicts => files[k].HasMergeConflicts

ConflictFlagsWitness ==
    /\ Parsed
    /\ statusOutput = <<"DU a.txt", "UU \"b c\"">>
    /\ Len(files) = 2
    /\ files[1].HasMergeConflicts /\ ~files[1].HasInlineMergeConflicts
    /\ files[2].HasMergeConflicts /\ files[2].HasInlineMergeConflicts

\* C19: for lines of 3 characters or more GetStatusFiles returns one record
\* per line, in line order; for the code XY of the line the record has
\* HasStagedChanges = (X is none of space, U, ?), HasUnstagedChanges = (Y is
\* not space), Tracked = (XY is none of ??, "A ", AM), Deleted = (X or Y is D),
\* ShortStatus = XY and DisplayString = the line.
StatusFlags ==
    Parsed
    => /\ Len(files) = Len(statusOutput)
       /\ \A k \in 1 .. Len(files) :
             LET X == SubSeq(statusOutput[k], 1, 1)
                 Y == SubSeq(statusOutput[k], 2, 2)
             IN  /\ files[k].HasStagedChanges = (X \notin {" ", "U", "?"})
                 /\ files[k].HasUnstagedChanges = (Y # " ")
                 /\ files[k].Tracked = (X \o Y \notin {"??", "A ", "AM"})
                 /\ files[k].Deleted = (X = "D" \/ Y = "D")
                 /\ files[k].ShortStatus = X \o Y
                 /\ files[k].DisplayString = statusOutput[k]

StatusFlagsWitness ==
    /\ Parsed
    /\ statusOutput = <<"MM a.txt", "A  \"b c\"">>
    /\ Len(files) = 2
    /\ files[1].HasStagedChanges /\ files[1].HasUnstagedChanges /\ files[1].Tracked
    /\ files[2].HasStagedChanges /\ ~files[2].HasUnstagedChanges /\ ~files[2].Tracked
    /\ files[2].DisplayString = "A  \"b c\""

\* C20: no two records of one result of GetStatusFiles have the same name,
\* whatever the lines of the status output.
StatusNamesDistinct ==
    Parsed
    => \A j \in 1 .. Len(files), k \in 1 .. Len(files) :
          j # k => files[j].Name # files[k].Name

\* C21: GetStatusFiles never crashes: a line of fewer than 3 characters is
\* reported as an error value, and a line of 3 characters or more never fails.
StatusNeverCrashes ==
    IsCall("GetStatusFiles") => ~crashed

\* the file that the last DiscardAllFileChanges was given
Given == files[last.index + 1]
ResetLine == "git reset -- \"" \o last.fileName \o "\""
CheckoutFileLine == "git checkout -- \"" \o last.fileName \o "\""
RemoveFileLine == "removeFile " \o last.fileName

\* C22: DiscardAllFileChanges(file) runs 'git reset -- file' first exactly
\* when the file has staged changes or merge conflicts; a failing reset is
\* returned and nothing else is run; otherwise exactly one more step follows:
\* the removal of the file when it is untracked, 'git checkout -- file' when it
\* is tracked.
DiscardAllSteps ==
    IsCall("DiscardAllFileChanges")
    => LET reset == Given.HasStagedChanges \/ Given.HasMergeConflicts
           n == IF reset THEN 1 ELSE 0
       IN  /\ Has(ResetLine) <=> reset
           /\ reset => calls[1].cmd = ResetLine
           /\ IF reset /\ ~calls[1].ok
              THEN Len(calls) = 1 /\ last.err = ToolErr(ResetLine)
              ELSE /\ Len(calls) = n + 1
                   /\ calls[n + 1].cmd = (IF Given.Tracked THEN CheckoutFileLine
                                          ELSE RemoveFileLine)
                   /\ last.err = (IF calls[n + 1].ok THEN NoErr
                                  ELSE ToolErr(calls[n + 1].cmd))

DiscardAllStepsWitness ==
    /\ IsCall("DiscardAllFileChanges")
    /\ statusOutput = <<"UU a.txt">>
    /\ Len(calls) = 2
    /\ calls[1].cmd = "git reset -- \"a.txt\"" /\ calls[1].ok
    /\ calls[2].cmd = "git checkout -- \"a.txt\"" /\ calls[2].ok
    /\ last.err = NoErr

\* C23: every file that GetCommitFiles returns has the status UNSELECTED when
\* there is no patch manager or the patch manager's CommitSha is not the
\* commitSha asked for; a status other than UNSELECTED is the one the patch
\* manager records for that file, and then its CommitSha is commitSha.
CommitFileStatus ==
    (IsCall("GetCommitFiles") /\ last.err = NoErr)
    => \A k \in 1 .. Len(commitFiles) :
          LET f == commitFiles[k]
              own == ~patchManager.isNil /\ patchManager.CommitSha = last.command
          IN  /\ ~own => f.Status = "UNSELECTED"
              /\ own => f.Status = (IF f.Name \in DOMAIN patchManager.fileInfoMap
                                    THEN patchManager.fileInfoMap[f.Name]
                                    ELSE "UNSELECTED")
              /\ f.Sha = last.command

CommitFileStatusWitness ==
    /\ IsCall("GetCommitFiles")
    /\ last.err = NoErr
    /\ last.command = "sha1"
    /\ ~patchManager.isNil
    /\ patchManager.CommitSha = "sha2"
    /\ patchManager.fileInfoMap = [f \in {"a.txt"} |-> "WHOLE"]
    /\ Len(commitFiles) = 2
    /\ commitFiles[1].Name = "a.txt" /\ commitFiles[1].Status = "UNSELECTED"
    /\ commitFiles[2].Name = "b.go" /\ commitFiles[2].Status = "UNSELECTED"

\* the lines of a todo file, and those of them that stand for commits
TodoLinesOf(file) == Split(file, "\n")
IsCommitLine(line) == line # "" /\ SubSeq(line, 1, 1) # "#"
CommitCountOf(lines) == Cardinality({k \in 1 .. Len(lines) : IsCommitLine(lines[k])})
\* the position of the line of the index-th commit counted from the newest,
\* which is the commit line that has index commit lines after it
CommitPosition(lines, index) ==
    CHOOSE p \in 1 .. Len(lines) :
        /\ IsCommitLine(lines[p])
        /\ Cardinality({k \in p + 1 .. Len(lines) : IsCommitLine(lines[k])}) = index
\* a line without its first word
RestOf(line) ==
    IF \E k \in 1 .. Len(line) : SubSeq(line, k, k) = " "
    THEN LET first == CHOOSE k \in 1 .. Len(line) :
                         /\ SubSeq(line, k, k) = " "
                         /\ \A j \in 1 .. k - 1 : SubSeq(line, j, j) # " "
         IN  SubSeq(line, first + 1, Len(line))
    ELSE ""

\* C24: EditRebaseTodo(index, action), for an index below the number of commit
\* lines, writes the file with the verb of the line of the index-th commit
\* counted from the newest replaced by action, the rest of that line kept, and
\* every other line and the number of lines as they were, wherever the blank
\* lines and the comment lines are.
EditTodoByCommitPosition ==
    [][(/\ last'.op = "EditRebaseTodo"
        /\ last'.index < CommitCountOf(TodoLinesOf(todoFile))
        /\ last'.err = NoErr
        /\ ~crashed')
       => LET lines == TodoLinesOf(todoFile)
              new == TodoLinesOf(todoFile')
              p == CommitPosition(lines, last'.index)
          IN  /\ Len(new) = Len(lines)
              /\ \A k \in 1 .. Len(lines) :
                    new[k] = (IF k = p THEN last'.action \o " " \o RestOf(lines[p])
                              ELSE lines[k])]_vars

\* C30: MoveTodoDown(index), for an index below the number of commit lines,
\* reads no position outside the file, and the file it writes is the original
\* with the line of the index-th commit counted from the newest and the line
\* before it exchanged.
MoveTodoSwapsCommit ==
    [][(/\ last'.op = "MoveTodoDown"
        /\ last'.index < CommitCountOf(TodoLinesOf(todoFile)))
       => /\ ~crashed'
          /\ last'.err = NoErr
             => LET lines == TodoLinesOf(todoFile)
                    new == TodoLinesOf(todoFile')
                    p == CommitPosition(lines, last'.index)
                IN  /\ p >= 2
                    /\ Len(new) = Len(lines)
                    /\ \A k \in 1 .. Len(lines) :
                          new[k] = (IF k = p THEN lines[p - 1]
                                    ELSE IF k = p - 1 THEN lines[p]
                                    ELSE lines[k])]_vars

\* C25: MoveCommitDown leaves the commits of its caller as they were, whether
\* it fails or succeeds.
MoveDownKeepsHistory ==
    [][last'.op = "MoveCommitDown" => commits' = commits]_vars

\* the continuation that the operation of a step finds pending
Pending ==
    IF last'.op = "QueueAndContinue" THEN last'.pending ELSE onSuccessfulContinue

\* C26: a step that invokes the pending continuation invokes it once, also
\* when the continuation itself runs a successful rebase continue; what the
\* continuation sets is still pending after the step and otherwise nothing is
\* pending; the step returns what the continuation returned.
ClearedBeforeInvoke ==
    [][(Pending # Nil /\ invoked'[Pending.id] # invoked[Pending.id])
       => /\ invoked'[Pending.id] = invoked[Pending.id] + 1
          /\ onSuccessfulContinue' =
                (IF Pending.kind = "requeue"
                 THEN [id |-> Pending.child, kind |-> "noop", child |-> 0]
                 ELSE Nil)
          /\ last'.err =
                (CASE Pending.kind = "noop" -> NoErr
                   [] Pending.kind = "requeue" -> NoErr
                   [] Pending.kind = "fail" -> ContErr
                   [] Pending.kind = "continue" ->
                        IF calls'[Len(calls')].ok THEN NoErr ELSE ToolErr(ContinueLine))
          /\ Pending.kind = "continue"
             => /\ Len(calls') >= 2
                /\ calls'[Len(calls')].cmd = ContinueLine
                /\ calls'[Len(calls') - 1].cmd = ContinueLine
                /\ calls'[Len(calls') - 1].ok]_vars

ClearedBeforeInvokeWitness ==
    /\ IsCall("QueueAndContinue")
    /\ last.pending.kind = "continue"
    /\ Len(calls) = 2
    /\ calls[1].cmd = ContinueLine /\ calls[1].ok
    /\ calls[2].cmd = ContinueLine /\ calls[2].ok
    /\ invoked[last.pending.id] = 1
    /\ onSuccessfulContinue = Nil
    /\ last.err = NoErr

\* C27: a GenericMerge that succeeds with skip, or with the continue of a
\* merge, leaves the pending continuation pending and invokes nothing; a step
\* that invokes a continuation has run a successful git rebase --continue.
OnlyRebaseContinueInvokes ==
    [][/\ (/\ last'.op = "GenericMerge"
           /\ last'.err = NoErr
           /\ \/ last'.command = "skip"
              \/ last'.commandType = "merge" /\ last'.command = "continue")
          => /\ onSuccessfulContinue' = onSuccessfulContinue
             /\ invoked' = invoked
             /\ Len(calls') = 1 /\ calls'[1].ok
       /\ invoked' # invoked => ContinueSucceeded(calls')]_vars

OnlyRebaseContinueInvokesWitness ==
    /\ IsCall("GenericMerge")
    /\ last.commandType = "merge"
    /\ last.command = "continue"
    /\ last.err = NoErr
    /\ calls[1].cmd = "git merge --continue" /\ calls[1].ok
    /\ onSuccessfulContinue # Nil
    /\ last.pending = onSuccessfulContinue
    /\ invoked[onSuccessfulContinue.id] = 0

\* C28: in DiscardOldFileChanges a failing probe is not the error returned
\* and is followed by the removal and, when that succeeds, the staging, never
\* by the checkout; a succeeding probe is followed by the checkout, never by
\* the removal or the staging.
ProbeSelectsBranch ==
    (Discarded /\ Len(calls) >= 2)
    => /\ calls[2].cmd = ProbeLine(last.fileName)
       /\ ~calls[2].ok
          => /\ last.err # ToolErr(ProbeLine(last.fileName))
             /\ Len(calls) >= 3
             /\ calls[3].cmd = RemoveLine
             /\ calls[3].ok => (Len(calls) >= 4 /\ calls[4].cmd = AddLine)
             /\ ~Has(CheckoutLine)
       /\ calls[2].ok
          => /\ Len(calls) >= 3
             /\ calls[3].cmd = CheckoutLine
             /\ ~Has(RemoveLine)
             /\ ~Has(AddLine)

ProbeSelectsBranchWitness ==
    /\ Discarded
    /\ Len(calls) = 6
    /\ ~calls[2].ok
    /\ calls[3].cmd = RemoveLine /\ calls[3].ok
    /\ calls[4].cmd = AddLine /\ calls[4].ok
    /\ calls[5].cmd = AmendLine /\ calls[5].ok
    /\ calls[6].cmd = ContinueLine /\ calls[6].ok
    /\ last.err = NoErr

UnexpectedCmd == "received unexpected pointer to cmd"

\* C29: a DiscardOldFileChanges during which the signing configuration stays
\* as it was does not return 'received unexpected pointer to cmd': with
\* signing on nothing is started, with signing off the continue is requested
\* only after the amend command has run and succeeded.
NoUnexpectedCmd ==
    (Discarded /\ last.gpg = last.gpgAmend)
    => /\ last.err # UnexpectedCmd
       /\ last.gpg => calls = <<>>
       /\ \A k \in 1 .. Len(calls) :
             calls[k].cmd = ContinueLine
             => \E j \in 1 .. k - 1 : calls[j].cmd = AmendLine /\ calls[j].ok

NoUnexpectedCmdWitness ==
    /\ Discarded
    /\ ~last.gpg /\ ~last.gpgAmend
    /\ Len(calls) = 5
    /\ calls[3].cmd = CheckoutLine /\ calls[3].ok
    /\ calls[4].cmd = AmendLine /\ calls[4].ok
    /\ calls[5].cmd = ContinueLine
    /\ last.err = NoErr

====
